---------------------------- MODULE Spec2Model ----------------------------
(***************************************************************************)
(* Model of src/utils/get_osm_data.py: merge_edges and simplify_graph on a *)
(* networkx MultiDiGraph (the graph ox.graph_from_gdfs builds).            *)
(*                                                                         *)
(* A graph is a record [node, edge]: node maps every node id to its data   *)
(* dict, edge is the set of edges [u, v, k, data, chain] where k is the    *)
(* multigraph key, data the attribute dict of the edge (a record whose     *)
(* domain is the set of attributes present) and chain is a history field:  *)
(* the input edges the edge stands for.  A street name is a sequence of    *)
(* characters, a geometry is a sequence of points, and the coordinate of   *)
(* input node i is the point i.  Nodes are visited in ascending id, which  *)
(* stands for the insertion order networkx iterates in.                    *)
(***************************************************************************)
EXTENDS Integers, Sequences, FiniteSets, TLC

VARIABLES
    graph,           \* the local graph of simplify_graph
    previous_nodes,  \* simplify_graph's previous_nodes
    todo,            \* nodes of graph.copy().nodes still to visit in this pass
    pc,              \* position in simplify_graph
    exc,             \* the exception that ended the call, "" if none
    input,           \* graph_original
    shapely,         \* the installed shapely: "1.x" iterates a MultiLineString,
                     \* "2.x" does not, "?" while the call has not depended on it
    passes,          \* history: passes of the while loop started
    contracted,      \* history: nodes removed by the current pass
    lastStep,        \* history: what the last visit of the for loop did
    run,             \* 1 in the first call, 2 in a call on the first call's result
                     \* or in a second call on the same input
    fixed            \* history: the graph the loop of the first call converged to

vars == <<graph, previous_nodes, todo, pc, exc, input, shapely, passes,
          contracted, lastStep, run, fixed>>

-----------------------------------------------------------------------------
(* Bounds of the input graphs.                                             *)

MaxNodes == 4

MaxEdges == 3

MaxParallel == 2

-----------------------------------------------------------------------------
(* Generic helpers.                                                        *)

Min(S) == CHOOSE x \in S : \A y \in S : x <= y

Max(S) == CHOOSE x \in S : \A y \in S : y <= x

RECURSIVE SortedSeq(_)
SortedSeq(S) == IF S = {} THEN <<>> ELSE <<Min(S)>> \o SortedSeq(S \ {Min(S)})

Range(s) == {s[i] : i \in DOMAIN s}

Reverse(s) == [i \in 1..Len(s) |-> s[Len(s) + 1 - i]]

\* Python's list.index, 1-based
Index(s, x) == Min({i \in DOMAIN s : s[i] = x})

\* Python's "a in b" on strings
IsSubstring(a, b) ==
    \E i \in 0..(Len(b) - Len(a)) : SubSeq(b, i + 1, i + Len(a)) = a

None == [kind |-> "None"]

-----------------------------------------------------------------------------
(* networkx.MultiDiGraph                                                   *)

Nodes(g) == DOMAIN g.node

EdgesBetween(g, a, b) == {e \in g.edge : e.u = a /\ e.v = b}

Predecessors(g, n) == {e.u : e \in {d \in g.edge : d.v = n}}

Successors(g, n) == {e.v : e \in {d \in g.edge : d.u = n}}

InDegree(g, n) == Cardinality({e \in g.edge : e.v = n})

OutDegree(g, n) == Cardinality({e \in g.edge : e.u = n})

HasEdge(g, a, b) == EdgesBetween(g, a, b) # {}

\* the key add_edge gives a new edge: len(keydict), raised while taken
RECURSIVE FreeKey(_, _)
FreeKey(keys, k) == IF k \in keys THEN FreeKey(keys, k + 1) ELSE k

NewEdgeKey(g, a, b) ==
    LET keys == {e.k : e \in EdgesBetween(g, a, b)}
    IN  FreeKey(keys, Cardinality(keys))

\* add_edge(a, b, **data): an end node the graph lacks is added without data
AddEdge(g, a, b, data, chain) ==
    [node |-> [n \in Nodes(g) \cup {a, b} |-> IF n \in Nodes(g) THEN g.node[n] ELSE <<>>],
     edge |-> g.edge \cup
        {[u |-> a, v |-> b, k |-> NewEdgeKey(g, a, b), data |-> data, chain |-> chain]}]

RemoveNodes(g, ns) ==
    [node |-> [n \in Nodes(g) \ ns |-> g.node[n]],
     edge |-> {e \in g.edge : e.u \notin ns /\ e.v \notin ns}]

\* a remove_node that drops the edges of the node and keeps the node
RemoveNodeEdgesOnly(g, n) ==
    [g EXCEPT !.edge = {e \in g.edge : e.u # n /\ e.v # n}]

RemoveNode(g, n) == RemoveNodes(g, {n})

\* a remove_edge that drops every parallel edge of (a, b)
RemoveAllEdges(g, a, b) == [g EXCEPT !.edge = @ \ EdgesBetween(g, a, b)]

\* remove_edge(u, v) without a key pops the edge of (u, v) inserted last
RemoveLastEdge(g, a, b) ==
    LET es == EdgesBetween(g, a, b)
    IN  IF es = {} THEN g
        ELSE [g EXCEPT !.edge = @ \ {e \in es : e.k = Max({d.k : d \in es})}]

SelfloopEdges(g) == {e \in g.edge : e.u = e.v}

Isolates(g) == {n \in Nodes(g) : InDegree(g, n) + OutDegree(g, n) = 0}

\* nodes joined to n by a path that ignores direction
RECURSIVE Grow(_, _)
Grow(g, S) ==
    LET T == S \cup {e.v : e \in {d \in g.edge : d.u \in S}}
                 \cup {e.u : e \in {d \in g.edge : d.v \in S}}
    IN  IF T = S THEN S ELSE Grow(g, T)

\* nx.weakly_connected_components as a list: the component of the first
\* node not yet seen, in node order
RECURSIVE ComponentsFrom(_, _)
ComponentsFrom(g, left) ==
    IF left = {} THEN <<>>
    ELSE LET c == Grow(g, {Min(left)})
         IN  <<c>> \o ComponentsFrom(g, left \ c)

WeaklyConnectedComponents(g) == ComponentsFrom(g, Nodes(g))

\* a choice of the first component whatever its size
FirstOfList(cs) == cs[1]

\* Python's max(list, key=len): the first element of greatest length
MaxByLen(cs) ==
    cs[Min({i \in DOMAIN cs :
              \A j \in DOMAIN cs : Cardinality(cs[j]) <= Cardinality(cs[i])})]

-----------------------------------------------------------------------------
(* merge_edges                                                             *)

HasKey(d, a) == a \in DOMAIN d

\* dict.setdefault("lanes", 1)
SetDefaultLanes(d) == IF HasKey(d, "lanes") THEN d ELSE ("lanes" :> 1) @@ d

\* the edge of key 0 that get_edge_data(a, b)[0] returns
Edge0(g, a, b) == CHOOSE e \in EdgesBetween(g, a, b) : e.k = 0

\* the graph after a setdefault on the data dict of edge e, which the graph owns
PatchLanes(g, e) ==
    [g EXCEPT !.edge = (@ \ {e}) \cup {[e EXCEPT !.data = SetDefaultLanes(e.data)]}]

\* a test that leaves out the lanes
CompatibleNames(data_u, data_v) ==
    IsSubstring(data_u.name, data_v.name) \/ IsSubstring(data_v.name, data_u.name)

\* a test that leaves out the names
CompatibleLanes(data_u, data_v) == data_u.lanes = data_v.lanes

\* the negation of the test that returns None on lines 76-80
Compatible(data_u, data_v) ==
    /\ IsSubstring(data_u.name, data_v.name) \/ IsSubstring(data_v.name, data_u.name)
    /\ data_u.lanes = data_v.lanes

\* a length that leaves out the second edge
MergedLengthFirst(data_u, data_v) == data_u.length

MergedLength(data_u, data_v) == data_u.length + data_v.length

MergedLanes(data_u, data_v) == data_u.lanes

\* shapely: a.union(b), then linemerge if the union is a MultiLineString.
\* Two lines that meet end to start become one LineString that keeps their
\* direction; a line and its reverse are one line; lines that do not touch
\* stay a MultiLineString, whose order of parts (flip) shapely does not fix.
Stitch(a, b, flip) ==
    IF a = <<>> THEN [type |-> "LineString", coords |-> b]
    ELSE IF b = <<>> \/ b = a \/ b = Reverse(a)
         THEN [type |-> "LineString", coords |-> a]
    ELSE IF a[Len(a)] = b[1]
         THEN [type |-> "LineString", coords |-> a \o Tail(b)]
    ELSE IF b[Len(b)] = a[1]
         THEN [type |-> "LineString", coords |-> b \o Tail(a)]
    ELSE [type |-> "MultiLineString",
          parts |-> IF flip THEN <<b, a>> ELSE <<a, b>>]

\* lines 91-100: the coordinate list of the stitched geometry; iterating a
\* MultiLineString is a TypeError where shapely does not allow it (iter)
Coords(geometry, iter) ==
    IF geometry.type = "LineString" THEN [kind |-> "list", coords |-> geometry.coords]
    ELSE IF iter
         THEN [kind |-> "list", coords |-> geometry.parts[1] \o geometry.parts[2]]
         ELSE [kind |-> "TypeError"]

\* lines 110-112: LineString(coords[coords.index(u_coords) : coords.index(v_coords)]);
\* a LineString of exactly one point cannot be built
CutGeometry(coords, u_coords, v_coords) ==
    SubSeq(coords, Index(coords, u_coords), Index(coords, v_coords) - 1)

\* what a call of merge_edges leaves: the graph, the value returned (or the
\* exception raised) and whether it went through lines 94-100
Outcome(g, ret, multi) == [graph |-> g, ret |-> ret, multi |-> multi]

Raised(e) == [kind |-> "raise", exc |-> e]

\* a test of the first edge only
MissingFirst(g, previous_node, successive_node, node) ==
    ~HasEdge(g, previous_node, node)

\* lines 72-73: get_edge_data returns None for one of the two node pairs
MissingEdge(g, previous_node, successive_node, node) ==
    ~HasEdge(g, previous_node, node) \/ ~HasEdge(g, node, successive_node)

MergeEdges(g, previous_node, successive_node, node, iter, flip) ==
    IF MissingEdge(g, previous_node, successive_node, node)
    THEN Outcome(g, None, FALSE)                      \* None[0]: TypeError, line 113
    ELSE IF \/ \A e \in EdgesBetween(g, previous_node, node) : e.k # 0
            \/ \A e \in EdgesBetween(g, node, successive_node) : e.k # 0
    THEN Outcome(g, Raised("KeyError"), FALSE)
    ELSE
    LET eu     == Edge0(g, previous_node, node)
        ev     == Edge0(g, node, successive_node)
        g2     == PatchLanes(PatchLanes(g, eu), ev)
        data_u == SetDefaultLanes(eu.data)
        data_v == SetDefaultLanes(ev.data)
        geom   == Stitch(data_u.geometry, data_v.geometry, flip)
        multi  == geom.type = "MultiLineString"
        cs     == Coords(geom, iter)
        nu     == g.node[previous_node]
        nv     == g.node[successive_node]
    IN  IF ~Compatible(data_u, data_v) THEN Outcome(g2, None, FALSE)
        ELSE IF ~HasKey(data_u, "length") \/ ~HasKey(data_v, "length")
        THEN Outcome(g2, Raised("KeyError"), FALSE)
        ELSE IF cs.kind = "TypeError" THEN Outcome(g2, None, multi)
        ELSE IF ~HasKey(nu, "xy") \/ ~HasKey(nv, "xy")
        THEN Outcome(g2, Raised("KeyError"), multi)
        ELSE IF nu.xy \notin Range(cs.coords) \/ nv.xy \notin Range(cs.coords)
        THEN Outcome(g2, None, multi)
        ELSE IF Len(CutGeometry(cs.coords, nu.xy, nv.xy)) = 1
        THEN Outcome(g2, Raised("ValueError"), multi)
        ELSE Outcome(g2,
                     [kind  |-> "edge",
                      data  |-> [f \in DOMAIN data_u |->
                                  CASE f = "length"   -> MergedLength(data_u, data_v)
                                    [] f = "lanes"    -> MergedLanes(data_u, data_v)
                                    [] f = "geometry" -> CutGeometry(cs.coords, nu.xy, nv.xy)
                                    [] OTHER          -> data_u[f]],
                      chain |-> eu.chain \o ev.chain],
                     multi)

-----------------------------------------------------------------------------
(* simplify_graph: the body of the for loop, lines 143-177                 *)

Neighbours(g, node) ==
    SortedSeq(Predecessors(g, node)) \o SortedSeq(Successors(g, node))

\* a test that leaves out the degrees
EligibleByCount(g, node) == Len(Neighbours(g, node)) = 2

\* the negation of the test that continues on lines 144-149
Eligible(g, node) ==
    /\ Len(Neighbours(g, node)) = 2
    /\ InDegree(g, node) = OutDegree(g, node)
    /\ InDegree(g, node) <= 2

\* the keyword arguments of add_edge on lines 159-165 and 169-175
InsertedData(edge) ==
    [length |-> edge.length, name |-> edge.name, geometry |-> edge.geometry]

\* an insertion that adds nothing
InsertNothing(g, a, b, ret) == g

Insert(g, a, b, ret) ==
    IF ret.kind = "edge" THEN AddEdge(g, a, b, InsertedData(ret.data), ret.chain)
    ELSE g

\* lines 157-177: the new edges, then the removal of the node
Contract(g, u, v, node, edge_uv, edge_vu) ==
    RemoveNode(Insert(Insert(g, u, v, edge_uv), v, u, edge_vu), node)

Step(g, kind, e, uv, vu, multi) ==
    [graph |-> g, kind |-> kind, exc |-> e, uv |-> uv, vu |-> vu, multi |-> multi]

\* what one iteration does to the graph: kind is "continue" (lines 149, 152),
\* "kept" (both merges None), "removed" (line 177) or "raise"
Visit(g, node, iter, flip_uv, flip_vu) ==
    IF ~Eligible(g, node) THEN Step(g, "continue", "", None, None, FALSE)
    ELSE
    LET u  == Neighbours(g, node)[1]
        v  == Neighbours(g, node)[2]
        m1 == MergeEdges(g, u, v, node, iter, flip_uv)
        m2 == MergeEdges(m1.graph, v, u, node, iter, flip_vu)
    IN  IF HasEdge(g, u, v) THEN Step(g, "continue", "", None, None, FALSE)
        ELSE IF m1.ret.kind = "raise"
        THEN Step(m1.graph, "raise", m1.ret.exc, None, None, m1.multi)
        ELSE IF m2.ret.kind = "raise"
        THEN Step(m2.graph, "raise", m2.ret.exc, m1.ret, None, m1.multi \/ m2.multi)
        ELSE IF m1.ret = None /\ m2.ret = None
        THEN Step(m2.graph, "kept", "", None, None, m1.multi \/ m2.multi)
        ELSE Step(Contract(m2.graph, u, v, node, m1.ret, m2.ret),
                  "removed", "", m1.ret, m2.ret, m1.multi \/ m2.multi)

\* the choices an iteration depends on: none unless a merge of the node
\* stitches two lines that do not touch
Choices(g, node) ==
    IF Visit(g, node, TRUE, FALSE, FALSE).multi THEN BOOLEAN ELSE {FALSE}

-----------------------------------------------------------------------------
(* simplify_graph: lines 180-208                                           *)

\* lines 181-183; max() of an empty list is a ValueError
GiantComponent(g) == MaxByLen(WeaklyConnectedComponents(g))

\* a pruning of graph_original in place of the local graph
PruneOriginal(g) == RemoveNodes(input, Nodes(input) \ GiantComponent(input))

PruneToGiant(g) == RemoveNodes(g, Nodes(g) \ GiantComponent(g))

\* a removal by node pair that reaches the edge of key 0 only
RemoveSelfloopsKey0(g) == [g EXCEPT !.edge = @ \ {e \in SelfloopEdges(g) : e.k = 0}]

\* line 185
RemoveSelfloops(g) == [g EXCEPT !.edge = @ \ SelfloopEdges(g)]

EdgeBefore(d, e) ==
    \/ d.u < e.u
    \/ d.u = e.u /\ d.v < e.v
    \/ d.u = e.u /\ d.v = e.v /\ d.k <= e.k

FirstEdge(es) == CHOOSE e \in es : \A d \in es : EdgeBefore(e, d)

\* graph.edges(data=True): by source node, then target, then key
RECURSIVE EdgeList(_)
EdgeList(es) ==
    IF es = {} THEN <<>> ELSE <<FirstEdge(es)>> \o EdgeList(es \ {FirstEdge(es)})

\* data.get("lanes", 0)
GetLanes(d) == IF HasKey(d, "lanes") THEN d.lanes ELSE 0

\* the test on line 198
MoreLanes(lanes, existing_lanes) == lanes > existing_lanes

\* lines 190-206: edges_to_remove after the edges es[i..] are scanned
RECURSIVE EdgesToRemove(_, _, _, _)
EdgesToRemove(es, i, seen_edges, edges_to_remove) ==
    IF i > Len(es) THEN edges_to_remove
    ELSE
    LET uv    == <<es[i].u, es[i].v>>
        lanes == GetLanes(es[i].data)
    IN  IF uv \notin DOMAIN seen_edges
        THEN EdgesToRemove(es, i + 1, (uv :> <<lanes, None>>) @@ seen_edges,
                           edges_to_remove)
        ELSE IF MoreLanes(lanes, seen_edges[uv][1])
        THEN EdgesToRemove(es, i + 1, (uv :> <<lanes, uv>>) @@ seen_edges,
                           Append(edges_to_remove, seen_edges[uv][2]))
        ELSE EdgesToRemove(es, i + 1, seen_edges, Append(edges_to_remove, uv))

\* line 208, remove_edges_from: remove_edge(*e[:3]) for every e; None[:3] is
\* a TypeError
RECURSIVE RemoveEdgesFrom(_, _, _)
RemoveEdgesFrom(g, ebunch, i) ==
    IF i > Len(ebunch) THEN [graph |-> g, exc |-> ""]
    ELSE IF ebunch[i] = None THEN [graph |-> g, exc |-> "TypeError"]
    ELSE RemoveEdgesFrom(RemoveLastEdge(g, ebunch[i][1], ebunch[i][2]), ebunch, i + 1)

Deduplicate(g) ==
    RemoveEdgesFrom(g, EdgesToRemove(EdgeList(g.edge), 1, <<>>, <<>>), 1)

-----------------------------------------------------------------------------
(* Input graphs: nodes 1..m with their coordinates, and up to MaxEdges     *)
(* edges, up to MaxParallel of them parallel, with keys 0, 1, ... and the  *)
(* geometry of a straight line between the end nodes.  No node is          *)
(* isolated: line 275 removes the isolated nodes before the call.          *)

\* name, lanes and length of an input edge: the names are "s", "st", "t"
Profiles ==
    << [name |-> <<1>>,    lanes |-> 1, length |-> 1],
       [name |-> <<1, 2>>,              length |-> 2],
       [name |-> <<2>>,    lanes |-> 1, length |-> 1],
       [name |-> <<1, 2>>, lanes |-> 2, length |-> 3] >>

InputEdge(a, b, key, p) ==
    [u |-> a, v |-> b, k |-> key,
     data  |-> ("geometry" :> <<a, b>>) @@ Profiles[p],
     chain |-> << <<a, b, key>> >>]

InputNode(n) == [xy |-> n]

\* The edge slots of the nodes 1..m are numbered 1..m*m*MaxParallel in the
\* order of EdgeList: slot s is the edge (SlotU, SlotV) of key SlotK.
SlotU(m, s) == ((s - 1) \div (m * MaxParallel)) + 1

SlotV(m, s) == (((s - 1) \div MaxParallel) % m) + 1

SlotK(m, s) == (s - 1) % MaxParallel

\* slots[i] is the slot of the i-th edge, 0 if there is none: slots ascend,
\* keys of a node pair are 0, 1, ... and no node is left without an edge
Shape(m, slots) ==
    /\ \A i \in 1..(MaxEdges - 1) :
          slots[i + 1] = 0 \/ (slots[i] # 0 /\ slots[i] < slots[i + 1])
    /\ \A i \in 1..MaxEdges :
          slots[i] # 0 /\ SlotK(m, slots[i]) # 0 => i > 1 /\ slots[i - 1] = slots[i] - 1
    /\ \A n \in 1..m : \E i \in 1..MaxEdges :
          slots[i] # 0 /\ n \in {SlotU(m, slots[i]), SlotV(m, slots[i])}

\* a self-loop takes part in no merge: one profile is enough for it
Profiled(m, slots, prof) ==
    \A i \in 1..MaxEdges :
        slots[i] = 0 \/ SlotU(m, slots[i]) = SlotV(m, slots[i]) => prof[i] = 1

InputGraph(m, slots, prof) ==
    [node |-> [n \in 1..m |-> InputNode(n)],
     edge |-> {InputEdge(SlotU(m, slots[i]), SlotV(m, slots[i]), SlotK(m, slots[i]),
                         prof[i]) : i \in {j \in 1..MaxEdges : slots[j] # 0}}]

EmptyGraph == [node |-> <<>>, edge |-> {}]

NoStep == [node |-> 0, before |-> EmptyGraph, kind |-> "", uv |-> None, vu |-> None]

-----------------------------------------------------------------------------
(* The call simplify_graph(graph_original)                                 *)

Init ==
    /\ \E m \in 0..MaxNodes :
       \E slots \in {f \in [1..MaxEdges -> 0..(m * m * MaxParallel)] : Shape(m, f)} :
       \E prof \in {f \in [1..MaxEdges -> DOMAIN Profiles] : Profiled(m, slots, f)} :
          input = InputGraph(m, slots, prof)
    /\ graph = input                     \* line 136
    /\ previous_nodes = 0                \* line 137
    /\ todo = <<>>
    /\ pc = "while"
    /\ exc = ""
    /\ shapely = "?"
    /\ passes = 0
    /\ contracted = 0
    /\ lastStep = NoStep
    /\ run = 1
    /\ fixed = EmptyGraph

\* a loop that makes one pass and exits
WhileOnePass ==
    /\ pc = "while"
    /\ IF passes = 0
       THEN /\ previous_nodes' = Cardinality(Nodes(graph))
            /\ todo' = SortedSeq(Nodes(graph))
            /\ passes' = passes + 1
            /\ contracted' = 0
            /\ pc' = "for"
       ELSE /\ pc' = "giant"
            /\ UNCHANGED <<previous_nodes, todo, passes, contracted>>
    /\ UNCHANGED <<graph, exc, input, shapely, lastStep, run, fixed>>

\* line 138, and lines 139-141 when the loop goes on
While ==
    /\ pc = "while"
    /\ IF previous_nodes # Cardinality(Nodes(graph))
       THEN /\ previous_nodes' = Cardinality(Nodes(graph))
            /\ todo' = SortedSeq(Nodes(graph))
            /\ passes' = passes + 1
            /\ contracted' = 0
            /\ pc' = "for"
       ELSE /\ pc' = "giant"
            /\ UNCHANGED <<previous_nodes, todo, passes, contracted>>
    /\ UNCHANGED <<graph, exc, input, shapely, lastStep, run, fixed>>

\* one iteration of the for loop, lines 141-177
ForNode ==
    /\ pc = "for"
    /\ todo # <<>>
    /\ \E iter \in (IF shapely = "?" THEN Choices(graph, Head(todo))
                    ELSE {shapely = "1.x"}) :
       \E flip_uv, flip_vu \in (IF iter THEN Choices(graph, Head(todo)) ELSE {FALSE}) :
         LET step == Visit(graph, Head(todo), iter, flip_uv, flip_vu)
         IN  /\ graph' = step.graph
             /\ lastStep' = [node |-> Head(todo), before |-> graph, kind |-> step.kind,
                             uv |-> step.uv, vu |-> step.vu]
             /\ contracted' = IF step.kind = "removed" THEN contracted + 1 ELSE contracted
             /\ exc' = step.exc
             /\ shapely' = IF ~step.multi THEN shapely
                           ELSE IF iter THEN "1.x" ELSE "2.x"
             /\ pc' = IF step.kind = "raise" THEN "raised"
                      ELSE IF Tail(todo) = <<>> THEN "while" ELSE "for"
    /\ todo' = Tail(todo)
    /\ UNCHANGED <<previous_nodes, input, passes, run, fixed>>

\* lines 181-183
Giant ==
    /\ pc = "giant"
    /\ IF Nodes(graph) = {}
       THEN /\ pc' = "raised"
            /\ exc' = "ValueError"
            /\ UNCHANGED graph
       ELSE /\ graph' = PruneToGiant(graph)
            /\ pc' = "selfloops"
            /\ UNCHANGED exc
    /\ UNCHANGED <<previous_nodes, todo, input, shapely, passes, contracted,
                   lastStep, run, fixed>>

\* line 185
Selfloops ==
    /\ pc = "selfloops"
    /\ graph' = RemoveSelfloops(graph)
    /\ pc' = "dedup"
    /\ UNCHANGED <<previous_nodes, todo, exc, input, shapely, passes, contracted,
                   lastStep, run, fixed>>

\* lines 187-210
Dedup ==
    /\ pc = "dedup"
    /\ graph' = Deduplicate(graph).graph
    /\ exc' = Deduplicate(graph).exc
    /\ pc' = IF Deduplicate(graph).exc = "" THEN "done" ELSE "raised"
    /\ UNCHANGED <<previous_nodes, todo, input, shapely, passes, contracted,
                   lastStep, run, fixed>>

Next == While \/ ForNode \/ Giant \/ Selfloops \/ Dedup

Spec == Init /\ [][Next]_vars

\* the graph as a caller sees it: every edge stands for itself
AsInput(g) ==
    [g EXCEPT !.edge = {[e EXCEPT !.chain = << <<e.u, e.v, e.k>> >>] : e \in g.edge}]

\* simplify_graph(simplify_graph(G)): the second call, on the graph returned
Rerun ==
    /\ pc = "done"
    /\ run = 1
    /\ run' = 2
    /\ input' = AsInput(graph)
    /\ graph' = AsInput(graph)
    /\ previous_nodes' = 0
    /\ todo' = <<>>
    /\ pc' = "while"
    /\ passes' = 0
    /\ contracted' = 0
    /\ lastStep' = NoStep
    /\ UNCHANGED <<exc, shapely, fixed>>

NextTwice == Next \/ Rerun

SpecTwice == Init /\ [][NextTwice]_vars

\* lines 138-141; in the second call the nodes of graph_original were
\* inserted in the opposite order, and so are iterated in it
WhileOrder ==
    /\ pc = "while"
    /\ IF previous_nodes # Cardinality(Nodes(graph))
       THEN /\ previous_nodes' = Cardinality(Nodes(graph))
            /\ todo' = IF run = 1 THEN SortedSeq(Nodes(graph))
                       ELSE Reverse(SortedSeq(Nodes(graph)))
            /\ passes' = passes + 1
            /\ contracted' = 0
            /\ pc' = "for"
       ELSE /\ pc' = "giant"
            /\ UNCHANGED <<previous_nodes, todo, passes, contracted>>
    /\ UNCHANGED <<graph, exc, input, shapely, lastStep, run, fixed>>

\* the loop of lines 136-177 once more on the same graph_original, after the
\* loop of the first call has converged
Again ==
    /\ pc = "giant"
    /\ run = 1
    /\ run' = 2
    /\ fixed' = graph
    /\ graph' = input
    /\ previous_nodes' = 0
    /\ todo' = <<>>
    /\ pc' = "while"
    /\ passes' = 0
    /\ contracted' = 0
    /\ lastStep' = NoStep
    /\ UNCHANGED <<exc, input, shapely>>

NextOrder == WhileOrder \/ ForNode \/ Again

SpecOrder == Init /\ [][NextOrder]_vars

\* a dict without the key a
Without(d, a) == [f \in DOMAIN d \ {a} |-> d[f]]

\* g where node n has no coordinate
DropCoordinate(g, n) == [g EXCEPT !.node[n] = Without(@, "xy")]

\* g where edge e has no length
DropLength(g, e) ==
    [g EXCEPT !.edge = (@ \ {e}) \cup {[e EXCEPT !.data = Without(@, "length")]}]

\* the malformed graphs: an input graph of one street (every edge of the
\* first profile) in which one node lacks its coordinate or one edge its length
InitMalformed ==
    /\ \E m \in 1..MaxNodes :
       \E slots \in {f \in [1..MaxEdges -> 0..(m * m * MaxParallel)] : Shape(m, f)} :
          LET g == InputGraph(m, slots, [i \in 1..MaxEdges |-> 1])
          IN  \/ \E n \in Nodes(g) : input = DropCoordinate(g, n)
              \/ \E e \in g.edge : input = DropLength(g, e)
    /\ graph = input
    /\ previous_nodes = 0
    /\ todo = <<>>
    /\ pc = "while"
    /\ exc = ""
    /\ shapely = "?"
    /\ passes = 0
    /\ contracted = 0
    /\ lastStep = NoStep
    /\ run = 1
    /\ fixed = EmptyGraph

SpecMalformed == InitMalformed /\ [][Next]_vars

\* the node pairs a two-way street can join
Streets(m) == {p \in (1..m) \X (1..m) : p[1] < p[2]}

\* the graphs of two-way streets: up to MaxEdges streets on the nodes 1..m,
\* each an edge in either direction with the attributes of one profile, and
\* no node without a street
InitTwoWay ==
    /\ \E m \in 2..MaxNodes :
       \E streets \in {S \in SUBSET Streets(m) :
                          /\ Cardinality(S) <= MaxEdges
                          /\ \A n \in 1..m : \E p \in S : n \in {p[1], p[2]}} :
       \E prof \in [streets -> DOMAIN Profiles] :
          input = [node |-> [n \in 1..m |-> InputNode(n)],
                   edge |-> {InputEdge(p[1], p[2], 0, prof[p]) : p \in streets}
                            \cup {InputEdge(p[2], p[1], 0, prof[p]) : p \in streets}]
    /\ graph = input
    /\ previous_nodes = 0
    /\ todo = <<>>
    /\ pc = "while"
    /\ exc = ""
    /\ shapely = "?"
    /\ passes = 0
    /\ contracted = 0
    /\ lastStep = NoStep
    /\ run = 1
    /\ fixed = EmptyGraph

SpecTwoWay == InitTwoWay /\ [][Next]_vars

-----------------------------------------------------------------------------
(* Properties                                                              *)

Parallel(g) == \E d, e \in g.edge : d # e /\ d.u = e.u /\ d.v = e.v

Connected(g) == Nodes(g) # {} /\ Grow(g, {Min(Nodes(g))}) = Nodes(g)

\* C1: the contraction loop terminates: a pass that contracts k nodes leaves
\* the node count k lower, so it is strictly lower after a pass with a
\* contraction and unchanged (the exit test of the loop) after a pass
\* without one, and the number of passes is bounded by the nodes of the input.
C1_LoopTerminates ==
    /\ pc = "while" /\ passes > 0 =>
          /\ Cardinality(Nodes(graph)) = previous_nodes - contracted
          /\ contracted > 0 => Cardinality(Nodes(graph)) < previous_nodes
          /\ contracted = 0 => Cardinality(Nodes(graph)) = previous_nodes
    /\ pc \in {"while", "for"} =>
          passes + Cardinality(Nodes(graph)) <= Cardinality(Nodes(input)) + 1

\* a pass that contracted was followed by a pass that did not, and the loop
\* is about to exit
C1_Witness ==
    /\ pc = "while"
    /\ passes = 2
    /\ contracted = 0
    /\ Cardinality(Nodes(graph)) < Cardinality(Nodes(input))

\* C2: the graph returned has no self-loop and at most one edge for every
\* ordered node pair.
C2_NoResidue ==
    pc = "done" => SelfloopEdges(graph) = {} /\ ~Parallel(graph)

\* a graph is returned for an input with a self-loop and parallel edges
C2_Witness == pc = "done" /\ SelfloopEdges(input) # {} /\ Parallel(input)

\* C3: from the extraction of the giant component on, and so in the graph
\* returned, the graph is one weakly connected component.
C3_Connected == pc \in {"selfloops", "dedup", "done"} => Connected(graph)

\* a graph is returned for a disconnected input with a self-loop or parallel
\* edges in the component kept
C3_Witness ==
    /\ pc = "done"
    /\ ~Connected(input)
    /\ \E d \in input.edge :
          /\ d.u \in Nodes(graph)
          /\ d.u = d.v \/ \E e \in input.edge : d # e /\ d.u = e.u /\ d.v = e.v

\* C4: an input without isolated nodes gives an output without isolated nodes.
C4_NoIsolatedNode ==
    pc = "done" /\ Isolates(input) = {} => Isolates(graph) = {}

Attributes(g) == {[u |-> e.u, v |-> e.v, k |-> e.k, data |-> e.data] : e \in g.edge}

\* C5: the second call, made on the graph the first call returned, returns a
\* graph with the same nodes, edges and attributes.
C5_Idempotent ==
    run = 2 /\ pc \in {"done", "raised"} =>
        /\ pc = "done"
        /\ graph.node = input.node
        /\ Attributes(graph) = Attributes(input)

InputEdgeOf(c) == CHOOSE e \in input.edge : <<e.u, e.v, e.k>> = c

RECURSIVE ChainLength(_)
ChainLength(chain) ==
    IF chain = <<>> THEN 0
    ELSE InputEdgeOf(Head(chain)).data.length + ChainLength(Tail(chain))

\* chain is a walk of input edges from a to b
IsChain(chain, a, b) ==
    /\ chain # <<>>
    /\ chain[1][1] = a
    /\ chain[Len(chain)][2] = b
    /\ \A i \in DOMAIN chain : \E e \in input.edge : <<e.u, e.v, e.k>> = chain[i]
    /\ \A i \in 1..(Len(chain) - 1) : chain[i][2] = chain[i + 1][1]

\* C6: the length of every edge is the sum of the lengths of the input edges
\* of the chain it replaces, a walk from its source to its target.
C6_LengthConservation ==
    \A e \in graph.edge :
        IsChain(e.chain, e.u, e.v) /\ e.data.length = ChainLength(e.chain)

\* an edge that replaces a chain of three input edges is returned
C6_Witness == pc = "done" /\ \E e \in graph.edge : Len(e.chain) = 3

\* C7: the geometry of every edge (u, v) of the graph returned starts at the
\* coordinate of u and ends at the coordinate of v (as that of every input
\* edge does).
C7_GeometryContinuity ==
    pc = "done" =>
    \A e \in graph.edge :
        /\ e.data.geometry # <<>>
        /\ e.data.geometry[1] = graph.node[e.u].xy
        /\ e.data.geometry[Len(e.data.geometry)] = graph.node[e.v].xy

\* C8: no step of the call adds a node: the nodes after a step are among the
\* nodes before it and among the nodes of the input.
C8_NodesNeverAdded ==
    [][Nodes(graph') \subseteq Nodes(graph) /\ Nodes(graph') \subseteq Nodes(input)]_vars

\* both the contraction loop and the pruning have removed nodes
C8_Witness ==
    /\ pc = "selfloops"
    /\ Cardinality(Nodes(graph)) < previous_nodes
    /\ previous_nodes < Cardinality(Nodes(input))

\* graph is the graph the visit recorded in lastStep left
AfterVisit == lastStep.kind # "" /\ pc \in {"for", "while", "giant"}

\* lanes with the default of merge_edges
LanesOf(d) == IF HasKey(d, "lanes") THEN d.lanes ELSE 1

\* n has one incoming edge u -> n and one outgoing edge n -> v, u # v, with
\* compatible names, equal lanes, contiguous geometries and no edge u -> v
OneWayThrough(g, u, n, v) ==
    /\ u # v /\ u # n /\ v # n
    /\ {e \in g.edge : e.v = n} = EdgesBetween(g, u, n)
    /\ {e \in g.edge : e.u = n} = EdgesBetween(g, n, v)
    /\ Cardinality(EdgesBetween(g, u, n)) = 1
    /\ Cardinality(EdgesBetween(g, n, v)) = 1
    /\ ~HasEdge(g, u, v)
    /\ \A d \in EdgesBetween(g, u, n) : \A e \in EdgesBetween(g, n, v) :
          /\ CompatibleNames(d.data, e.data)
          /\ LanesOf(d.data) = LanesOf(e.data)
          /\ d.data.geometry # <<>> /\ e.data.geometry # <<>>
          /\ d.data.geometry[Len(d.data.geometry)] = e.data.geometry[1]

\* C9: a visit of a one-way pass-through node with compatible edges removes
\* the node and leaves exactly one edge u -> v.
C9_OneWayContraction ==
    \A u, v \in Nodes(lastStep.before) :
        AfterVisit /\ OneWayThrough(lastStep.before, u, lastStep.node, v) =>
            /\ lastStep.kind = "removed"
            /\ lastStep.node \notin Nodes(graph)
            /\ Cardinality(EdgesBetween(graph, u, v)) = 1

LanesDiffer(g, p, n, s) ==
    /\ \E e \in EdgesBetween(g, p, n) : e.k = 0
    /\ \E e \in EdgesBetween(g, n, s) : e.k = 0
    /\ LanesOf(Edge0(g, p, n).data) # LanesOf(Edge0(g, n, s).data)

EdgesAt(g, n) == {e \in g.edge : e.u = n \/ e.v = n}

\* C10: merge_edges returns None for two edges whose lanes differ (missing
\* lanes count as 1), and the visit of a node whose through-path has such
\* edges leaves the node and all its edges in the graph.
C10_LaneMismatchBlocks ==
    /\ \A n \in Nodes(graph) :
       \A p \in Predecessors(graph, n) : \A s \in Successors(graph, n) :
          LanesDiffer(graph, p, n, s) =>
              \A iter, flip \in BOOLEAN :
                  MergeEdges(graph, p, s, n, iter, flip).ret = None
    /\ AfterVisit /\ Eligible(lastStep.before, lastStep.node) =>
          LET g == lastStep.before
              n == lastStep.node
              u == Neighbours(g, n)[1]
              v == Neighbours(g, n)[2]
          IN  LanesDiffer(g, u, n, v) =>
                  /\ lastStep.kind \in {"continue", "kept"}
                  /\ n \in Nodes(graph)
                  /\ Attributes([edge |-> {[e EXCEPT !.data = SetDefaultLanes(@)] :
                                              e \in EdgesAt(graph, n)}])
                       = Attributes([edge |-> {[e EXCEPT !.data = SetDefaultLanes(@)] :
                                                  e \in EdgesAt(g, n)}])

\* a node was kept whose two edges have the same name, one without lanes and
\* one with two lanes
C10_Witness ==
    /\ AfterVisit
    /\ lastStep.kind = "kept"
    /\ \E u, v \in Nodes(lastStep.before) :
          /\ OutDegree(lastStep.before, lastStep.node) = 1
          /\ \E d \in EdgesBetween(lastStep.before, u, lastStep.node) :
             \E e \in EdgesBetween(lastStep.before, lastStep.node, v) :
                /\ d.data.name = e.data.name
                /\ ~HasKey(d.data, "lanes")
                /\ HasKey(e.data, "lanes") /\ e.data.lanes = 2

NamesDiffer(g, p, n, s) ==
    /\ \E e \in EdgesBetween(g, p, n) : e.k = 0
    /\ \E e \in EdgesBetween(g, n, s) : e.k = 0
    /\ ~CompatibleNames(Edge0(g, p, n).data, Edge0(g, n, s).data)

\* the edges at n, with the lanes merge_edges defaults
EdgesAtDefaulted(g, n) ==
    Attributes([edge |-> {[e EXCEPT !.data = SetDefaultLanes(@)] : e \in EdgesAt(g, n)}])

\* C11: merge_edges returns None for two edges neither of whose names is a
\* substring of the other, and the visit of a node whose through-path has
\* such edges leaves the node and all its edges in the graph.
C11_NameMismatchBlocks ==
    /\ \A n \in Nodes(graph) :
       \A p \in Predecessors(graph, n) : \A s \in Successors(graph, n) :
          NamesDiffer(graph, p, n, s) =>
              \A iter, flip \in BOOLEAN :
                  MergeEdges(graph, p, s, n, iter, flip).ret = None
    /\ AfterVisit /\ Eligible(lastStep.before, lastStep.node) =>
          LET g == lastStep.before
              n == lastStep.node
              u == Neighbours(g, n)[1]
              v == Neighbours(g, n)[2]
          IN  NamesDiffer(g, u, n, v) =>
                  /\ lastStep.kind \in {"continue", "kept"}
                  /\ n \in Nodes(graph)
                  /\ EdgesAtDefaulted(graph, n) = EdgesAtDefaulted(g, n)

\* a node was kept whose two edges have equal lanes and the names "s" and "t"
C11_Witness ==
    /\ AfterVisit
    /\ lastStep.kind = "kept"
    /\ \E u, v \in Nodes(lastStep.before) :
          /\ u # v
          /\ OutDegree(lastStep.before, lastStep.node) = 1
          /\ \E d \in EdgesBetween(lastStep.before, u, lastStep.node) :
             \E e \in EdgesBetween(lastStep.before, lastStep.node, v) :
                /\ d.data.name = <<1>> /\ e.data.name = <<2>>
                /\ LanesOf(d.data) = LanesOf(e.data)

\* the weakly connected component of n in g
ComponentOf(g, n) == Grow(g, {n})

\* C12: the step of lines 181-183 keeps exactly the nodes of one weakly
\* connected component of the converged graph, one of the greatest number of
\* nodes, with their data and the edges among them, and nothing else.
C12_GiantComponent ==
    [][pc = "giant" /\ pc' = "selfloops" =>
          /\ Nodes(graph') # {}
          /\ \A n \in Nodes(graph') : ComponentOf(graph, n) = Nodes(graph')
          /\ \A n \in Nodes(graph) :
                Cardinality(ComponentOf(graph, n)) <= Cardinality(Nodes(graph'))
          /\ \A n \in Nodes(graph') : graph'.node[n] = graph.node[n]
          /\ graph'.edge = {e \in graph.edge : e.u \in Nodes(graph') /\ e.v \in Nodes(graph')}
    ]_vars

\* a converged graph of two components of different sizes was pruned, and
\* the component kept is not that of the first node
C12_Witness ==
    /\ pc = "selfloops"
    /\ Cardinality(Nodes(graph)) >= 2
    /\ Cardinality(Nodes(graph)) < previous_nodes
    /\ 1 \in Nodes(input) \ Nodes(graph)
    /\ contracted = 0 /\ passes = 1

ParallelPairs(g) ==
    {p \in Nodes(g) \X Nodes(g) : Cardinality(EdgesBetween(g, p[1], p[2])) > 1}

\* C13: the deduplication of lines 187-208 completes, and of every node pair
\* with parallel edges it leaves exactly one edge, one of the greatest lane
\* count among them.
C13_DuplicateResolution ==
    [][pc = "dedup" /\ ParallelPairs(graph) # {} =>
          /\ pc' = "done"
          /\ \A p \in ParallelPairs(graph) :
                /\ Cardinality(EdgesBetween(graph', p[1], p[2])) = 1
                /\ \A e \in EdgesBetween(graph', p[1], p[2]) :
                      /\ e \in EdgesBetween(graph, p[1], p[2])
                      /\ \A d \in EdgesBetween(graph, p[1], p[2]) :
                            GetLanes(d.data) <= GetLanes(e.data)
    ]_vars

Schema == {"name", "lanes", "length", "geometry"}

\* the edges of g that the visit recorded in lastStep inserted for the merge
\* result ret
InsertedFor(g, ret) ==
    IF ret.kind = "edge"
    THEN {e \in g.edge : e.chain = ret.chain /\ e \notin lastStep.before.edge}
    ELSE {}

\* C14: an edge inserted for a successful merge has the attributes name,
\* lanes, length and geometry, and its lanes are the lanes of the merge.
C14_InsertedSchema ==
    AfterVisit /\ lastStep.kind = "removed" =>
        \A ret \in {lastStep.uv, lastStep.vu} :
            /\ ret.kind = "edge" => InsertedFor(graph, ret) # {}
            /\ \A e \in InsertedFor(graph, ret) :
                  /\ DOMAIN e.data = Schema
                  /\ e.data.lanes = ret.data.lanes

Pairs(g) == {<<e.u, e.v>> : e \in g.edge}

\* C15: the loop converges to the same nodes and the same edges (as node
\* pairs) whatever the order in which each pass visits the nodes: here, in
\* ascending and in descending order.
C15_OrderIndependence ==
    run = 2 /\ pc = "giant" =>
        /\ Nodes(graph) = Nodes(fixed)
        /\ Pairs(graph) = Pairs(fixed)

Malformed(g) ==
    \/ \E n \in Nodes(g) : ~HasKey(g.node[n], "xy")
    \/ \E e \in g.edge : ~HasKey(e.data, "length")

\* C16: a call on a graph with a node without coordinate or an edge without
\* length ends in an error, with no contraction made, and returns no graph.
C16_MalformedRejected ==
    Malformed(input) =>
        /\ Nodes(graph) = Nodes(input)
        /\ pc # "done"

\* the distinct neighbours of n
NeighbourSet(g, n) == Predecessors(g, n) \cup Successors(g, n)

\* C17: a node the loop removes had exactly two distinct neighbours when it
\* was visited.
C17_TwoDistinctNeighbours ==
    AfterVisit /\ lastStep.kind = "removed" =>
        Cardinality(NeighbourSet(lastStep.before, lastStep.node)) = 2

\* the edges p -> n and n -> s are single, of compatible names and equal lanes
Mergeable(g, p, n, s) ==
    /\ Cardinality(EdgesBetween(g, p, n)) = 1
    /\ Cardinality(EdgesBetween(g, n, s)) = 1
    /\ \A d \in EdgesBetween(g, p, n) : \A e \in EdgesBetween(g, n, s) :
          CompatibleNames(d.data, e.data) /\ LanesOf(d.data) = LanesOf(e.data)

\* n is joined to each of its two distinct neighbours u, v in both
\* directions, by edges mergeable in each direction, and u, v are not joined
TwoWayThrough(g, u, n, v) ==
    /\ u # v /\ u # n /\ v # n
    /\ NeighbourSet(g, n) = {u, v}
    /\ InDegree(g, n) = 2 /\ OutDegree(g, n) = 2
    /\ Mergeable(g, u, n, v) /\ Mergeable(g, v, n, u)
    /\ ~HasEdge(g, u, v) /\ ~HasEdge(g, v, u)

\* C18: the visit of a two-way pass-through node removes the node and leaves
\* the edges u -> v and v -> u.
C18_TwoWayContraction ==
    \A u, v \in Nodes(lastStep.before) :
        AfterVisit /\ TwoWayThrough(lastStep.before, u, lastStep.node, v) =>
            /\ lastStep.kind = "removed"
            /\ lastStep.node \notin Nodes(graph)
            /\ HasEdge(graph, u, v) /\ HasEdge(graph, v, u)

\* C19: a node visited in the first pass, which starts from graph_original,
\* is eligible in the graph as it is now exactly if it was in graph_original,
\* with the same neighbours u, v and the same outcome of the visit.
C19_SnapshotSemantics ==
    pc = "for" /\ passes = 1 /\ run = 1 /\ todo # <<>> =>
        LET n == Head(todo)
        IN  /\ Eligible(graph, n) = Eligible(input, n)
            /\ Eligible(input, n) => Neighbours(graph, n) = Neighbours(input, n)
            /\ \A iter, flip_uv, flip_vu \in BOOLEAN :
                  Visit(graph, n, iter, flip_uv, flip_vu).kind
                    = Visit(input, n, iter, flip_uv, flip_vu).kind

\* C20: when a visit inserts an edge (a, b), the graph has no edge (a, b)
\* just before that insertion (the edge of line 159 is inserted before the
\* edge of line 169), and a node whose neighbours u, v are joined by an edge
\* (u, v) is left in place with the graph unchanged.
C20_NoConflictingShortcut ==
    AfterVisit /\ Eligible(lastStep.before, lastStep.node) =>
        LET g == lastStep.before
            u == Neighbours(g, lastStep.node)[1]
            v == Neighbours(g, lastStep.node)[2]
        IN  /\ lastStep.kind = "removed" /\ lastStep.uv.kind = "edge" =>
                  ~HasEdge(g, u, v)
            /\ lastStep.kind = "removed" /\ lastStep.vu.kind = "edge" =>
                  ~HasEdge(Insert(g, u, v, lastStep.uv), v, u)
            /\ HasEdge(g, u, v) =>
                  lastStep.kind = "continue" /\ graph = g

Junction(g, n) ==
    \/ InDegree(g, n) # OutDegree(g, n)
    \/ InDegree(g, n) > 2
    \/ Cardinality(NeighbourSet(g, n)) >= 3

\* C21: the visit of a node whose in-degree differs from its out-degree or
\* exceeds 2, or which has three or more distinct neighbours, leaves the node
\* and the whole graph as they are.
C21_JunctionPreserved ==
    AfterVisit /\ Junction(lastStep.before, lastStep.node) =>
        /\ lastStep.kind = "continue"
        /\ lastStep.node \in Nodes(graph)
        /\ graph = lastStep.before

\* a node with two edges from u and one edge to v, all of one name and lane
\* count, was visited: only the degree test stands against its removal
C21_Witness ==
    /\ AfterVisit
    /\ lastStep.kind = "continue"
    /\ InDegree(lastStep.before, lastStep.node) = 2
    /\ OutDegree(lastStep.before, lastStep.node) = 1
    /\ Len(Neighbours(lastStep.before, lastStep.node)) = 2
    /\ Cardinality(NeighbourSet(lastStep.before, lastStep.node)) = 2
    /\ \A d, e \in EdgesAt(lastStep.before, lastStep.node) :
          d.data.name = e.data.name /\ LanesOf(d.data) = LanesOf(e.data)

\* C22: merge_edges, called for the node the loop is at, returns None and
\* leaves the graph as it is when the edge (previous_node, node) or the edge
\* (node, successive_node) is absent, whatever the two other nodes; so the
\* reverse call of a visit whose neighbours u, v differ returns None.
C22_MissingEdgeSkips ==
    /\ pc = "for" /\ todo # <<>> =>
          \A p, s \in Nodes(graph) :
              ~HasEdge(graph, p, Head(todo)) \/ ~HasEdge(graph, Head(todo), s) =>
                  \A iter, flip \in BOOLEAN :
                      MergeEdges(graph, p, s, Head(todo), iter, flip)
                        = Outcome(graph, None, FALSE)
    /\ AfterVisit /\ lastStep.kind \in {"kept", "removed"} =>
          LET g == lastStep.before
              u == Neighbours(g, lastStep.node)[1]
              v == Neighbours(g, lastStep.node)[2]
          IN  u # v => /\ ~HasEdge(g, v, lastStep.node)
                       /\ lastStep.vu = None

\* the visit of n in a one-way chain u -> n -> v: the forward call gave an
\* edge, the reverse call None
C22_Witness ==
    /\ AfterVisit
    /\ lastStep.kind = "removed"
    /\ lastStep.uv.kind = "edge"
    /\ lastStep.vu = None
    /\ \E u, v \in Nodes(lastStep.before) :
          OneWayThrough(lastStep.before, u, lastStep.node, v)

\* the geometries of the edges p -> n and n -> s that merge_edges reads do
\* not join into one line
Disjoint(g, p, n, s) ==
    /\ \E e \in EdgesBetween(g, p, n) : e.k = 0
    /\ \E e \in EdgesBetween(g, n, s) : e.k = 0
    /\ Stitch(Edge0(g, p, n).data.geometry, Edge0(g, n, s).data.geometry, FALSE).type
         = "MultiLineString"

\* C23: a visit whose forward merge reads two edges of disjoint geometries
\* gets no merged edge from it, and so inserts none.
C23_DisjointGeometryBlocks ==
    AfterVisit /\ Eligible(lastStep.before, lastStep.node) =>
        LET g == lastStep.before
            u == Neighbours(g, lastStep.node)[1]
            v == Neighbours(g, lastStep.node)[2]
        IN  ~HasEdge(g, u, v) /\ Disjoint(g, u, lastStep.node, v) =>
                lastStep.uv = None /\ lastStep.kind # "removed"

\* C24: a visit whose two merges both return None leaves the graph as it
\* was: the same nodes, the same edges and the same attributes on every edge.
C24_SkippedMergeChangesNothing ==
    AfterVisit /\ lastStep.kind = "kept" =>
        /\ graph.node = lastStep.before.node
        /\ Attributes(graph) = Attributes(lastStep.before)

\* the visit of n would remove it, for the shapely of this run
Contractible(g, n) ==
    \E iter \in (IF shapely = "?" THEN BOOLEAN ELSE {shapely = "1.x"}) :
    \E flip_uv, flip_vu \in BOOLEAN :
        Visit(g, n, iter, flip_uv, flip_vu).kind = "removed"

\* C25: when the loop has exited, no node of the graph passes the tests of
\* the loop with a merge that succeeds in some direction.
C25_FixedPoint ==
    pc = "giant" => \A n \in Nodes(graph) : ~Contractible(graph, n)

\* the loop has exited after a contraction, with a node left that passes the
\* tests of the loop and whose merges fail
C25_Witness ==
    /\ pc = "giant"
    /\ Cardinality(Nodes(graph)) < Cardinality(Nodes(input))
    /\ \E n \in Nodes(graph) :
          /\ Eligible(graph, n)
          /\ ~HasEdge(graph, Neighbours(graph, n)[1], Neighbours(graph, n)[2])

\* g is a one-way chain a -> n1 -> ... -> nk -> b, k >= 2, whose edges all
\* have the same name and the same lanes
FullChain(g, a, b) ==
    /\ a # b
    /\ Cardinality(Nodes(g)) >= 4
    /\ Cardinality(g.edge) = Cardinality(Nodes(g)) - 1
    /\ Connected(g)
    /\ InDegree(g, a) = 0 /\ OutDegree(g, a) = 1
    /\ InDegree(g, b) = 1 /\ OutDegree(g, b) = 0
    /\ \A n \in Nodes(g) \ {a, b} : InDegree(g, n) = 1 /\ OutDegree(g, n) = 1
    /\ \A d, e \in g.edge :
          /\ HasKey(d.data, "lanes")
          /\ d.data.name = e.data.name /\ d.data.lanes = e.data.lanes

\* C26: once the loop has exited on a one-way chain from a to b of one name
\* and one lane count, only a and b are left, joined by the single edge a -> b.
C26_FullChainContraction ==
    \A a, b \in Nodes(input) :
        pc \in {"giant", "selfloops", "dedup", "done"} /\ FullChain(input, a, b) =>
            /\ Nodes(graph) = {a, b}
            /\ Pairs(graph) = {<<a, b>>}
            /\ Cardinality(graph.edge) = 1

\* the nodes reached from the nodes S along directed edges
RECURSIVE Forward(_, _)
Forward(g, S) ==
    LET T == S \cup {e.v : e \in {d \in g.edge : d.u \in S}}
    IN  IF T = S THEN S ELSE Forward(g, T)

Reachable(g, a, b) == b \in Forward(g, {a})

\* C27: between two different nodes of the graph there is a directed path in
\* the graph exactly if there is one in graph_original, at every point of the
\* call and so in the graph returned.
C27_ReachabilityPreserved ==
    \A a, b \in Nodes(graph) :
        a # b => (Reachable(graph, a, b) <=> Reachable(input, a, b))

\* a graph is returned in which b is reached from a, which in the input was
\* reached only through nodes that are gone
C27_Witness ==
    /\ pc = "done"
    /\ \E a, b \in Nodes(graph) :
          /\ a # b
          /\ Reachable(graph, a, b)
          /\ ~Reachable(RemoveNodes(input, Nodes(input) \ Nodes(graph)), a, b)

\* C28: the call on a graph without nodes does not end in an exception.
C28_EmptyInput ==
    Nodes(input) = {} => pc # "raised" /\ exc = ""

=============================================================================
